---- MODULE Spec2Model ----
(***************************************************************************)
(* Mass-spring cloth lattice: lattice construction, the fixed-tick         *)
(* integrator (gravity, damped Verlet integration, spring relaxation), the *)
(* wind system and the interaction handlers (impulse, spring cut, reset).  *)
(*                                                                         *)
(* f32 values are modelled as integers (fixed point, division truncating   *)
(* toward zero).  A Vec3 is a record [x, y, nan]: z is always 0 in the     *)
(* program and is dropped; nan = TRUE stands for a vector whose components *)
(* are NaN (the only non-finite value the code can produce is 0/0, which   *)
(* hits every component of a vector at once).                              *)
(***************************************************************************)
EXTENDS Integers, Sequences, FiniteSets

\* ------------------------------------------------------------------ bounds
MaxNodes == 4
MaxTicks == 2
MaxOps == 2

\* ------------------------------------------------------- program constants
NumSteps == 5
NumRelax == 3
MouseRadius == 150
WindForceX == 20
WindRectBottom == -1000

\* --------------------------------------------------------- float vectors
V(x, y) == [x |-> x, y |-> y, nan |-> FALSE]

NaNVec == [x |-> 0, y |-> 0, nan |-> TRUE]

VZero == V(0, 0)

VAdd(a, b) == IF a.nan \/ b.nan THEN NaNVec ELSE V(a.x + b.x, a.y + b.y)

VSub(a, b) == IF a.nan \/ b.nan THEN NaNVec ELSE V(a.x - b.x, a.y - b.y)

\* division of fixed-point values, rounding toward zero; d > 0
TDiv(n, d) == IF n >= 0 THEN n \div d ELSE -((-n) \div d)

\* v * num / den, componentwise
VScale(v, num, den) ==
    IF v.nan THEN NaNVec ELSE V(TDiv(v.x * num, den), TDiv(v.y * num, den))

RECURSIVE SqrtSearch(_, _, _)
SqrtSearch(n, lo, hi) ==
    IF lo >= hi THEN lo
    ELSE LET mid == (lo + hi + 1) \div 2
         IN  IF mid * mid <= n THEN SqrtSearch(n, mid, hi)
             ELSE SqrtSearch(n, lo, mid - 1)

\* Vec3::length of a finite vector
VLength(v) == SqrtSearch(v.x * v.x + v.y * v.y, 0, 46340)

DistSq(a, b) == (a.x - b.x) * (a.x - b.x) + (a.y - b.y) * (a.y - b.y)

\* a.distance(b) < r and a.distance(b) <= r; a comparison with NaN is false
DistLess(a, b, r) == ~a.nan /\ ~b.nan /\ DistSq(a, b) < r * r

DistLeq(a, b, r) == ~a.nan /\ ~b.nan /\ DistSq(a, b) <= r * r

Range(s) == {s[i] : i \in DOMAIN s}

\* ------------------------------------------------------------------ state
VARIABLES
    params,   \* the Params resource
    window,   \* size of the primary window (read by the wind system)
    nodes,    \* entity id -> node components (Index, Transform, PreviousPosition, Force, Mass, Pinned)
    edges,    \* the Edge entities, in query iteration order
    wind,     \* the WindWave entity: its rectangle and its Force
    queue,    \* systems of the fixed-timestep stage still to run in the current tick
    pc,       \* position of physics_update inside its loops
    trace,    \* passes run so far in the current tick
    anchor,   \* position every node was given at construction or by the last reset
    last,     \* the handler that ran last, with its inputs
    prior,    \* the handler that ran before the current (or last) tick started
    quiet,    \* no input event so far, other than spring cuts before the first tick
    ticks,    \* number of fixed ticks started
    ops       \* number of input events handled

vars == <<params, window, nodes, edges, wind, queue, pc, trace, anchor, last, prior, quiet, ticks, ops>>

\* ----------------------------------------------------------------- inputs
\* structural rest lengths the slider can be left at (its range is 10..100)
RestLengths == {100, 50}

\* gravity constants the simulation is started with
Gravities == {10, 0}

\* world positions of the cursor
Points == {V(-100, -100), V(1000, 1000)}

\* Params handed to Simulation::new; calc_rest_lengths keeps r[0]
StartParams(w, h, g) ==
    [num_nodes_x |-> w, num_nodes_y |-> h, m |-> 2, g |-> g, r0 |-> 100, k0 |-> 2,
     enable_wind |-> FALSE, dt |-> 5, dampen_num |-> 1, dampen_den |-> 1,
     mouse_force |-> V(200, 0)]

\* --------------------------------------------------------- Lattice Builder
\* grid[k][i]: entity of the node in row k, column i (ids in spawn order)
Grid(p, k, i) == k * p.num_nodes_x + i + 1

NodeIds(p) == 1 .. (p.num_nodes_x * p.num_nodes_y)

\* position given to the node of grid index (i, k): (i * r0, -(k * r0))
GridPos(i, k, r0) == V(i * r0, -(k * r0))

\* variant: the Pinned component given to column 0 instead of row 0
SpawnNode_pin_column(p, k, i) ==
    [index  |-> [x |-> i, y |-> k],
     pos    |-> GridPos(i, k, p.r0),
     prev   |-> GridPos(i, k, p.r0),
     mass   |-> p.m,
     force  |-> VZero,
     pinned |-> (i = 0)]

SpawnNode(p, k, i) ==
    [index  |-> [x |-> i, y |-> k],
     pos    |-> GridPos(i, k, p.r0),
     prev   |-> GridPos(i, k, p.r0),
     mass   |-> p.m,
     force  |-> VZero,
     pinned |-> (k = 0)]

BuildNodes(p) ==
    [id \in NodeIds(p) |->
        SpawnNode(p, (id - 1) \div p.num_nodes_x, (id - 1) % p.num_nodes_x)]

\* variant: the left edge spawned from the node to itself
CellEdges_self_loop(p, k, i) ==
    (IF k > 0 THEN <<[a |-> Grid(p, k - 1, i), b |-> Grid(p, k, i)]>> ELSE <<>>) \o
    (IF i > 0 THEN <<[a |-> Grid(p, k, i), b |-> Grid(p, k, i)]>> ELSE <<>>)

\* edges spawned for cell (k, i): the top edge, then the left edge
CellEdges(p, k, i) ==
    (IF k > 0 THEN <<[a |-> Grid(p, k - 1, i), b |-> Grid(p, k, i)]>> ELSE <<>>) \o
    (IF i > 0 THEN <<[a |-> Grid(p, k, i - 1), b |-> Grid(p, k, i)]>> ELSE <<>>)

RECURSIVE BuildEdgesFrom(_, _)
BuildEdgesFrom(p, c) ==
    IF c >= p.num_nodes_x * p.num_nodes_y THEN <<>>
    ELSE CellEdges(p, c \div p.num_nodes_x, c % p.num_nodes_x) \o BuildEdgesFrom(p, c + 1)

BuildEdges(p) == BuildEdgesFrom(p, 0)

\* setup_wind: the wave rectangle spans the window width, with its Force
SetupWind(win) ==
    [min |-> [x |-> 0, y |-> WindRectBottom], max |-> [x |-> win.x, y |-> 0],
     force |-> V(WindForceX, 0)]

Idle == [phase |-> "idle", step |-> 0, iter |-> 0]

Init ==
    /\ \E w \in 1..MaxNodes, h \in 1..MaxNodes, g \in Gravities :
          /\ w * h <= MaxNodes
          /\ params = StartParams(w, h, g)
    /\ window = [x |-> 200, y |-> 150]
    /\ nodes = BuildNodes(params)
    /\ edges = BuildEdges(params)
    /\ wind = SetupWind(window)
    /\ queue = <<>>
    /\ pc = Idle
    /\ trace = <<>>
    /\ anchor = [id \in NodeIds(params) |-> nodes[id].pos]
    /\ last = [op |-> "build", left |-> FALSE, right |-> FALSE, p |-> VZero]
    /\ prior = "build"
    /\ quiet = TRUE
    /\ ticks = 0
    /\ ops = 0

\* ------------------------------------------------------------- Integrator
\* variant: the gravity pass without the Pinned test
apply_gravity_all(p, ns) ==
    [id \in DOMAIN ns |-> [ns[id] EXCEPT !.force = VAdd(@, V(0, (-p.g) * ns[id].mass))]]

\* gravity pass: force += (0, -g, 0) * mass on every node without Pinned
apply_gravity(p, ns) ==
    [id \in DOMAIN ns |->
        IF ~ns[id].pinned
        THEN [ns[id] EXCEPT !.force = VAdd(@, V(0, (-p.g) * ns[id].mass))]
        ELSE ns[id]]

\* variant: the step without the (pos - prev) term
IntegrateNode_no_velocity(dt, p, n) ==
    LET a       == VScale(n.force, 1, n.mass)
        new_pos == VAdd(n.pos, VScale(a, dt * dt, 1))
    IN  [n EXCEPT !.prev = n.pos, !.pos = new_pos, !.force = VZero]

\* variant: the step without the reset of the force accumulator
IntegrateNode_keep_force(dt, p, n) ==
    LET a       == VScale(n.force, 1, n.mass)
        new_pos == VAdd(VAdd(n.pos, VScale(VSub(n.pos, n.prev), p.dampen_num, p.dampen_den)),
                        VScale(a, dt * dt, 1))
    IN  [n EXCEPT !.prev = n.pos, !.pos = new_pos]

\* damped Verlet step of one node
IntegrateNode(dt, p, n) ==
    LET a       == VScale(n.force, 1, n.mass)
        new_pos == VAdd(VAdd(n.pos, VScale(VSub(n.pos, n.prev), p.dampen_num, p.dampen_den)),
                        VScale(a, dt * dt, 1))
    IN  [n EXCEPT !.prev = n.pos, !.pos = new_pos, !.force = VZero]

\* position integration pass: the loop visits every node of the query
update_nodes(dt, p, ns) == [id \in DOMAIN ns |-> IntegrateNode(dt, p, ns[id])]

\* 0.5 * ((difference / distance) * f / mass) * dt * dt, rounded once;
\* distance = 0 makes difference / distance the vector of 0/0
Correction(difference, distance, f, mass, dt) ==
    IF difference.nan \/ distance = 0 THEN NaNVec
    ELSE V(TDiv(difference.x * f * dt * dt, 2 * distance * mass),
           TDiv(difference.y * f * dt * dt, 2 * distance * mass))

VNeg(v) == IF v.nan THEN NaNVec ELSE V(-v.x, -v.y)

\* variant: endpoint a corrected without the test for its Pinned component
RelaxEdge_move_pinned(dt, p, edge, ns) ==
    LET a          == ns[edge.a]
        b          == ns[edge.b]
        difference == VSub(a.pos, b.pos)
        distance   == IF difference.nan THEN 0 ELSE VLength(difference)
        tension    == p.r0 - distance
        f          == -(p.k0 * tension)
        a_new      == VAdd(a.pos, VNeg(Correction(difference, distance, f, a.mass, dt)))
        b_new      == IF ~b.pinned
                      THEN VAdd(b.pos, Correction(difference, distance, f, b.mass, dt))
                      ELSE b.pos
    IN  [ns EXCEPT ![edge.a].pos = a_new, ![edge.b].pos = b_new]

\* variant: the tension taken as the distance itself, without the rest length
RelaxEdge_no_rest(dt, p, edge, ns) ==
    LET a          == ns[edge.a]
        b          == ns[edge.b]
        difference == VSub(a.pos, b.pos)
        distance   == IF difference.nan THEN 0 ELSE VLength(difference)
        f          == -(p.k0 * distance)
        a_new      == IF ~a.pinned
                      THEN VAdd(a.pos, VNeg(Correction(difference, distance, f, a.mass, dt)))
                      ELSE a.pos
        b_new      == IF ~b.pinned
                      THEN VAdd(b.pos, Correction(difference, distance, f, b.mass, dt))
                      ELSE b.pos
    IN  [ns EXCEPT ![edge.a].pos = a_new, ![edge.b].pos = b_new]

\* body of the loop over edges: one spring's position correction
RelaxEdge(dt, p, edge, ns) ==
    LET a          == ns[edge.a]
        b          == ns[edge.b]
        difference == VSub(a.pos, b.pos)
        distance   == IF difference.nan THEN 0 ELSE VLength(difference)
        tension    == p.r0 - distance
        f          == -(p.k0 * tension)
        a_new      == IF ~a.pinned
                      THEN VAdd(a.pos, VNeg(Correction(difference, distance, f, a.mass, dt)))
                      ELSE a.pos
        b_new      == IF ~b.pinned
                      THEN VAdd(b.pos, Correction(difference, distance, f, b.mass, dt))
                      ELSE b.pos
    IN  [ns EXCEPT ![edge.a].pos = a_new, ![edge.b].pos = b_new]

\* the nodes after the first n edges of a relaxation pass were processed
RECURSIVE RelaxPrefix(_, _, _, _, _)
RelaxPrefix(dt, p, es, ns, n) ==
    IF n = 0 THEN ns
    ELSE RelaxEdge(dt, p, es[n], RelaxPrefix(dt, p, es, ns, n - 1))

\* variant: every edge's correction computed from the positions at the start
\* of the pass, the corrections of a shared node added up
RECURSIVE SnapshotPrefix(_, _, _, _, _)
SnapshotPrefix(dt, p, es, ns, n) ==
    IF n = 0 THEN ns
    ELSE LET done  == SnapshotPrefix(dt, p, es, ns, n - 1)
             moved == RelaxEdge(dt, p, es[n], ns)
         IN  [id \in DOMAIN ns |->
                [done[id] EXCEPT !.pos = VAdd(@, VSub(moved[id].pos, ns[id].pos))]]

apply_spring_forces_snapshot(dt, p, es, ns) == SnapshotPrefix(dt, p, es, ns, Len(es))

\* one constraint-relaxation pass over all edges, in query order
apply_spring_forces(dt, p, es, ns) == RelaxPrefix(dt, p, es, ns, Len(es))

\* variant: the relaxation loop entered before the integration of the substep
PhysicsNext_relax_first(c) ==
    CASE c.phase = "gravity" -> [c EXCEPT !.phase = "relax", !.iter = 1]
      [] c.phase = "relax" /\ c.iter < NumRelax -> [c EXCEPT !.iter = c.iter + 1]
      [] c.phase = "relax" /\ c.iter >= NumRelax -> [c EXCEPT !.phase = "update", !.iter = 0]
      [] c.phase = "update" /\ c.step < NumSteps ->
             [phase |-> "gravity", step |-> c.step + 1, iter |-> 0]
      [] OTHER -> Idle

\* control flow of physics_update: the pass that follows the pass at c
PhysicsNext(c) ==
    CASE c.phase = "gravity" -> [c EXCEPT !.phase = "update"]
      [] c.phase = "update"  -> [c EXCEPT !.phase = "relax", !.iter = 1]
      [] c.phase = "relax" /\ c.iter < NumRelax -> [c EXCEPT !.iter = c.iter + 1]
      [] c.phase = "relax" /\ c.iter >= NumRelax /\ c.step < NumSteps ->
             [phase |-> "gravity", step |-> c.step + 1, iter |-> 0]
      [] OTHER -> Idle

\* let step_dt = params.dt / num_steps
StepDt(p) == p.dt \div NumSteps

\* -------------------------------------------------------------- WindField
InRect(pos, r) ==
    /\ ~pos.nan
    /\ pos.x >= r.min.x
    /\ pos.x <= r.max.x
    /\ pos.y >= r.min.y
    /\ pos.y <= r.max.y

\* variant: the wrap tested on the right edge of the rectangle
AdvanceWind_wrap_right(win, p, w) ==
    LET minx == w.min.x + w.force.x * p.dt
        maxx == w.max.x + w.force.x * p.dt
    IN  IF maxx >= win.x
        THEN [w EXCEPT !.min.x = minx - win.x, !.max.x = maxx - win.x]
        ELSE [w EXCEPT !.min.x = minx, !.max.x = maxx]

\* the wave rectangle after one run of the wind system
AdvanceWind(win, p, w) ==
    LET minx == w.min.x + w.force.x * p.dt
        maxx == w.max.x + w.force.x * p.dt
    IN  IF minx >= win.x
        THEN [w EXCEPT !.min.x = minx - win.x, !.max.x = maxx - win.x]
        ELSE [w EXCEPT !.min.x = minx, !.max.x = maxx]

\* the nodes after one run of the wind system (query: With<Index>, Without<Pinned>)
WindNodes(w, ns) ==
    [id \in DOMAIN ns |->
        IF ~ns[id].pinned /\ InRect(ns[id].pos, w)
        THEN [ns[id] EXCEPT !.force = VAdd(@, w.force)]
        ELSE ns[id]]

\* -------------------------------------------------------- Interaction Ops
\* variant: the left-button loop without the Pinned test
ApplyImpulse_pinned_too(p, world_pos, ns) ==
    [id \in DOMAIN ns |->
        IF DistLess(ns[id].pos, world_pos, MouseRadius)
        THEN [ns[id] EXCEPT !.force = VAdd(@, p.mouse_force)]
        ELSE ns[id]]

\* left button: force += mouse_force on every node within 150 of the cursor
\* that has no Pinned component
ApplyImpulse(p, world_pos, ns) ==
    [id \in DOMAIN ns |->
        IF DistLess(ns[id].pos, world_pos, MouseRadius) /\ ~ns[id].pinned
        THEN [ns[id] EXCEPT !.force = VAdd(@, p.mouse_force)]
        ELSE ns[id]]

\* the edge's test in the right-button loop
EdgeNear(p, world_pos, ns, edge) ==
    \/ DistLeq(ns[edge.a].pos, world_pos, p.r0)
    \/ DistLeq(ns[edge.b].pos, world_pos, p.r0)

\* index of the edge the right-button loop despawns before its break; 0 if none
RECURSIVE FirstNear(_, _, _, _, _)
FirstNear(p, world_pos, ns, es, i) ==
    IF i > Len(es) THEN 0
    ELSE IF EdgeNear(p, world_pos, ns, es[i]) THEN i
    ELSE FirstNear(p, world_pos, ns, es, i + 1)

\* despawn of the i-th edge entity: the table's last row takes the freed row
Despawn(es, i) ==
    IF i = Len(es) THEN SubSeq(es, 1, Len(es) - 1)
    ELSE [SubSeq(es, 1, Len(es) - 1) EXCEPT ![i] = es[Len(es)]]

\* variant: the right-button loop without its break
RECURSIVE CutNearest_no_break(_, _, _, _)
CutNearest_no_break(p, world_pos, ns, es) ==
    LET i == FirstNear(p, world_pos, ns, es, 1)
    IN  IF i = 0 THEN es ELSE CutNearest_no_break(p, world_pos, ns, Despawn(es, i))

\* right button: despawn the first matching edge
CutNearest(p, world_pos, ns, es) ==
    LET i == FirstNear(p, world_pos, ns, es, 1)
    IN  IF i = 0 THEN es ELSE Despawn(es, i)

\* variant: the reset position without the sign of the y coordinate
ResetNode_plus_y(p, n) ==
    LET pos == V(n.index.x * p.r0, n.index.y * p.r0)
    IN  [n EXCEPT !.pos = pos, !.prev = pos]

\* reset_nodes_position
ResetNode(p, n) ==
    LET pos == V(n.index.x * p.r0, -(n.index.y * p.r0))
    IN  [n EXCEPT !.pos = pos, !.prev = pos]

reset_nodes_position(p, ns) == [id \in DOMAIN ns |-> ResetNode(p, ns[id])]

\* ---------------------------------------------------------------- actions
Event(op, left, right, p) == [op |-> op, left |-> left, right |-> right, p |-> p]

NoPoint == VZero

BetweenTicks == queue = <<>>

\* variant: the wind system scheduled without its run criterion
StageSystems_no_criterion(p) ==
    {<<"apply_wind", "physics_update">>, <<"physics_update", "apply_wind">>}

\* variant: the wind system scheduled on both sides of physics_update
StageSystems_wind_twice(p) ==
    IF p.enable_wind
    THEN {<<"apply_wind", "physics_update", "apply_wind">>}
    ELSE {<<"physics_update">>}

\* systems of the fixed-timestep stage: physics_update, and the wind system
\* under its run criterion
StageSystems(p) ==
    IF p.enable_wind
    THEN {<<"apply_wind", "physics_update">>, <<"physics_update", "apply_wind">>}
    ELSE {<<"physics_update">>}

\* the fixed timestep elapses: the stage's systems are scheduled
FixedTick ==
    /\ BetweenTicks
    /\ ticks < MaxTicks
    /\ queue' \in StageSystems(params)
    /\ pc' = [phase |-> "gravity", step |-> 1, iter |-> 0]
    /\ trace' = <<>>
    /\ ticks' = ticks + 1
    /\ last' = Event("tick", FALSE, FALSE, NoPoint)
    /\ prior' = last.op
    /\ UNCHANGED <<params, window, nodes, edges, wind, anchor, quiet, ops>>

\* the wind system runs
ApplyWind ==
    /\ queue # <<>>
    /\ Head(queue) = "apply_wind"
    /\ wind' = AdvanceWind(window, params, wind)
    /\ nodes' = WindNodes(wind', nodes)
    /\ queue' = Tail(queue)
    /\ trace' = Append(trace, [pass |-> "wind", step |-> 0, dt |-> params.dt])
    /\ UNCHANGED <<params, window, edges, pc, anchor, last, prior, quiet, ticks, ops>>

\* physics_update moves on to its next pass; it returns after the last one
Advance(pass) ==
    /\ pc' = PhysicsNext(pc)
    /\ queue' = IF PhysicsNext(pc) = Idle THEN Tail(queue) ELSE queue
    /\ trace' = Append(trace, [pass |-> pass, step |-> pc.step, dt |-> StepDt(params)])
    /\ UNCHANGED <<params, window, edges, wind, anchor, last, prior, quiet, ticks, ops>>

InPhysics(phase) ==
    /\ queue # <<>>
    /\ Head(queue) = "physics_update"
    /\ pc.phase = phase

GravityPass ==
    /\ InPhysics("gravity")
    /\ nodes' = apply_gravity(params, nodes)
    /\ Advance("gravity")

UpdatePass ==
    /\ InPhysics("update")
    /\ nodes' = update_nodes(StepDt(params), params, nodes)
    /\ Advance("update")

RelaxPass ==
    /\ InPhysics("relax")
    /\ nodes' = apply_spring_forces(StepDt(params), params, edges, nodes)
    /\ Advance("relax")

\* handle_mouse_interaction with the cursor at world_pos
HandleMouse(left, right, world_pos) ==
    /\ BetweenTicks
    /\ ops < MaxOps
    /\ left \/ right
    /\ nodes' = IF left THEN ApplyImpulse(params, world_pos, nodes) ELSE nodes
    /\ edges' = IF right THEN CutNearest(params, world_pos, nodes', edges) ELSE edges
    /\ last' = Event("mouse", left, right, world_pos)
    /\ quiet' = (quiet /\ ~left /\ ticks = 0)
    /\ UNCHANGED prior
    /\ ops' = ops + 1
    /\ UNCHANGED <<params, window, wind, queue, pc, trace, anchor, ticks>>

Impulse == \E world_pos \in Points : HandleMouse(TRUE, FALSE, world_pos)

Cut == \E world_pos \in Points : HandleMouse(FALSE, TRUE, world_pos)

ImpulseAndCut == \E world_pos \in Points : HandleMouse(TRUE, TRUE, world_pos)

\* variant: a reset that also respawns the lattice's edges
Reset_respawn_edges ==
    /\ BetweenTicks
    /\ ops < MaxOps
    /\ nodes' = reset_nodes_position(params, nodes)
    /\ edges' = BuildEdges(params)
    /\ anchor' = [id \in DOMAIN nodes |-> nodes'[id].pos]
    /\ last' = Event("reset", FALSE, FALSE, NoPoint)
    /\ quiet' = FALSE
    /\ UNCHANGED prior
    /\ ops' = ops + 1
    /\ UNCHANGED <<params, window, wind, queue, pc, trace, ticks>>

\* the Reset button of the side panel, or key R released
Reset ==
    /\ BetweenTicks
    /\ ops < MaxOps
    /\ nodes' = reset_nodes_position(params, nodes)
    /\ anchor' = [id \in DOMAIN nodes |-> nodes'[id].pos]
    /\ last' = Event("reset", FALSE, FALSE, NoPoint)
    /\ quiet' = FALSE
    /\ UNCHANGED prior
    /\ ops' = ops + 1
    /\ UNCHANGED <<params, window, edges, wind, queue, pc, trace, ticks>>

\* side panel: the structural rest length slider
SetRestLength ==
    /\ BetweenTicks
    /\ ops < MaxOps
    /\ \E r \in RestLengths \ {params.r0} : params' = [params EXCEPT !.r0 = r]
    /\ last' = Event("rest_length", FALSE, FALSE, NoPoint)
    /\ quiet' = FALSE
    /\ UNCHANGED prior
    /\ ops' = ops + 1
    /\ UNCHANGED <<window, nodes, edges, wind, queue, pc, trace, anchor, ticks>>

\* side panel: the "Enable wind" checkbox
ToggleWind ==
    /\ BetweenTicks
    /\ ops < MaxOps
    /\ params' = [params EXCEPT !.enable_wind = ~params.enable_wind]
    /\ last' = Event("wind", FALSE, FALSE, NoPoint)
    /\ quiet' = FALSE
    /\ UNCHANGED prior
    /\ ops' = ops + 1
    /\ UNCHANGED <<window, nodes, edges, wind, queue, pc, trace, anchor, ticks>>

Next ==
    \/ FixedTick
    \/ ApplyWind
    \/ GravityPass
    \/ UpdatePass
    \/ RelaxPass
    \/ Impulse
    \/ Cut
    \/ ImpulseAndCut
    \/ Reset
    \/ SetRestLength
    \/ ToggleWind

Spec == Init /\ [][Next]_vars

\* ================================================================ claims
PhysTrace == SelectSeq(trace, LAMBDA e : e.pass # "wind")

WindTrace == SelectSeq(trace, LAMBDA e : e.pass = "wind")

MouseStep == last'.op = "mouse" /\ ops' = ops + 1

ResetStep == last'.op = "reset" /\ ops' = ops + 1

\* C1 - pinned invariance: in every reachable state every pinned node's
\* position and previous position equal the values it was given at
\* construction or by the last reset.
C1_PinnedInvariance ==
    \A id \in DOMAIN nodes :
        nodes[id].pinned => nodes[id].pos = anchor[id] /\ nodes[id].prev = anchor[id]

C1_Witness ==
    /\ BetweenTicks
    /\ ticks >= 2
    /\ params.enable_wind
    /\ \E id \in DOMAIN nodes : nodes[id].pinned
    /\ \E id \in DOMAIN nodes : ~nodes[id].pinned /\ nodes[id].pos # anchor[id]

\* the pass the claim expects at place j of a tick, and its substep
ExpectedPass(j) ==
    IF (j - 1) % 5 = 0 THEN "gravity" ELSE IF (j - 1) % 5 = 1 THEN "update" ELSE "relax"

ExpectedStep(j) == (j - 1) \div 5 + 1

\* C2 - a tick runs exactly 5 substeps of duration dt/5; each substep is one
\* gravity pass, then one integration, then exactly 3 relaxation passes.
C2_SubstepOrder ==
    /\ Len(PhysTrace) <= 25
    /\ \A j \in 1..Len(PhysTrace) :
          /\ PhysTrace[j].pass = ExpectedPass(j)
          /\ PhysTrace[j].step = ExpectedStep(j)
          /\ PhysTrace[j].dt * 5 = params.dt
    /\ (BetweenTicks /\ ticks > 0) => Len(PhysTrace) = 25

C2_Witness == BetweenTicks /\ ticks >= 1 /\ Len(PhysTrace) = 25 /\ Len(edges) >= 1

HasWindForce(n) == n.force.x >= wind.force.x

NearEdges(q) ==
    {i \in 1..Len(edges) :
        \E id \in {edges[i].a, edges[i].b} :
            /\ ~nodes[id].pos.nan
            /\ DistSq(nodes[id].pos, q) <= params.r0 * params.r0}

MinOf(S) == CHOOSE i \in S : \A j \in S : i <= j

\* C4 - one cut removes at most one spring: none if no spring has an
\* endpoint within r0 of the cursor, else exactly the first such spring in
\* scan order.
C4_BoundedRemoval ==
    [][(MouseStep /\ last'.right) =>
          IF NearEdges(last'.p) = {}
          THEN edges' = edges
          ELSE /\ Len(edges') = Len(edges) - 1
               /\ Range(edges') = Range(edges) \ {edges[MinOf(NearEdges(last'.p))]}]_vars

C4_Witness ==
    /\ last.op = "mouse"
    /\ last.right
    /\ Len(edges) = Len(BuildEdges(params)) - 1
    /\ Len(edges) >= 2

\* C5 - reset is a function of grid_index and the current r0: right after a
\* reset every node's position and previous position are the ones the
\* lattice builder gives for the current r0, and a second reset changes
\* nothing.
C5_ResetIsGridFunction ==
    last.op = "reset" =>
        /\ \A id \in DOMAIN nodes :
              /\ nodes[id].pos = BuildNodes(params)[id].pos
              /\ nodes[id].prev = BuildNodes(params)[id].pos
        /\ reset_nodes_position(params, nodes) = nodes

C5_Witness ==
    /\ last.op = "reset"
    /\ ticks >= 1
    /\ params.g > 0
    /\ \E id \in DOMAIN nodes : ~nodes[id].pinned /\ nodes[id].index.y > 0

Identity(n) == <<n.index, n.mass, n.pinned>>

\* C6 - topology only shrinks: the particle set is the constructed one, the
\* spring set is a subset of the constructed one and never grows, and a
\* reset changes no spring.
C6_TopologyOnlyShrinks ==
    /\ [](/\ DOMAIN nodes = DOMAIN BuildNodes(params)
          /\ \A id \in DOMAIN nodes : Identity(nodes[id]) = Identity(BuildNodes(params)[id])
          /\ Range(edges) \subseteq Range(BuildEdges(params))
          /\ Cardinality(Range(edges)) = Len(edges))
    /\ [][Range(edges') \subseteq Range(edges)]_vars
    /\ [][ResetStep => edges' = edges]_vars

C6_Witness ==
    /\ last.op = "reset"
    /\ Len(edges) < Len(BuildEdges(params))
    /\ Len(edges) >= 1

NodeAt(x, y) == {id \in DOMAIN nodes : nodes[id].index = [x |-> x, y |-> y]}

\* the grid indexes an edge joins
Joins(e) == {nodes[e.a].index, nodes[e.b].index}

\* C7 - construction for W x H gives W*H nodes, one per grid index, at rest
\* with zero force and mass m, pinned exactly in row 0, and exactly one
\* spring per left and per top neighbour pair: (W-1)*H + W*(H-1) springs.
C7_LatticeConstruction ==
    last.op = "build" =>
        LET W == params.num_nodes_x
            H == params.num_nodes_y
        IN  /\ Cardinality(DOMAIN nodes) = W * H
            /\ \A x \in 0..(W - 1), y \in 0..(H - 1) : Cardinality(NodeAt(x, y)) = 1
            /\ \A id \in DOMAIN nodes :
                  /\ nodes[id].pos = nodes[id].prev
                  /\ nodes[id].force = VZero
                  /\ nodes[id].mass = params.m
                  /\ nodes[id].pinned <=> (nodes[id].index.y = 0)
            /\ {Joins(edges[i]) : i \in 1..Len(edges)} =
                  {{[x |-> x, y |-> y], [x |-> x - 1, y |-> y]} : x \in 1..(W - 1), y \in 0..(H - 1)}
                  \cup
                  {{[x |-> x, y |-> y], [x |-> x, y |-> y - 1]} : x \in 0..(W - 1), y \in 1..(H - 1)}
            /\ Len(edges) = (W - 1) * H + W * (H - 1)
            /\ Cardinality({Joins(edges[i]) : i \in 1..Len(edges)}) = Len(edges)

C7_Witness ==
    /\ last.op = "build"
    /\ params.num_nodes_x = 2
    /\ params.num_nodes_y = 2
    /\ Len(edges) = 4

InReach(n, q) == ~n.pos.nan /\ DistSq(n.pos, q) < MouseRadius * MouseRadius

\* C8 - an impulse adds mouse_force to the accumulator of every non-pinned
\* node within the radius of the cursor and changes nothing else.
C8_ImpulseFrame ==
    [][(MouseStep /\ last'.left) =>
          /\ \A id \in DOMAIN nodes :
                IF ~nodes[id].pinned /\ InReach(nodes[id], last'.p)
                THEN /\ nodes'[id].force = VAdd(nodes[id].force, params.mouse_force)
                     /\ [nodes'[id] EXCEPT !.force = nodes[id].force] = nodes[id]
                ELSE nodes'[id] = nodes[id]
          /\ DOMAIN nodes' = DOMAIN nodes
          /\ ~last'.right => edges' = edges
          /\ UNCHANGED <<params, window, wind, anchor>>]_vars

C8_Witness ==
    /\ last.op = "mouse"
    /\ last.left
    /\ ~last.right
    /\ \E id \in DOMAIN nodes :
          ~nodes[id].pinned /\ InReach(nodes[id], last.p) /\ nodes[id].force.x > 0
    /\ \E id \in DOMAIN nodes :
          nodes[id].pinned /\ InReach(nodes[id], last.p) /\ nodes[id].force = VZero
    /\ \E id \in DOMAIN nodes : ~nodes[id].pinned /\ ~InReach(nodes[id], last.p)

\* C9 - degenerate geometry: when a relaxation pass reaches a spring whose
\* endpoints have the same position, that spring moves neither endpoint and
\* no non-finite value enters a position.
C9_DegenerateRecovered ==
    InPhysics("relax") =>
        \A e \in 1..Len(edges) :
            LET before == RelaxPrefix(StepDt(params), params, edges, nodes, e - 1)
                after  == RelaxEdge(StepDt(params), params, edges[e], before)
                a      == edges[e].a
                b      == edges[e].b
            IN  (~before[a].pos.nan /\ before[a].pos = before[b].pos) =>
                    /\ after[a].pos = before[a].pos
                    /\ after[b].pos = before[b].pos
                    /\ \A id \in DOMAIN after : ~after[id].pos.nan

\* C10 - spring well-formedness: every spring present joins two distinct
\* existing nodes.
C10_SpringsWellFormed ==
    \A i \in 1..Len(edges) :
        /\ edges[i].a # edges[i].b
        /\ edges[i].a \in DOMAIN nodes
        /\ edges[i].b \in DOMAIN nodes

C10_Witness ==
    /\ InPhysics("relax")
    /\ Len(edges) >= 1
    /\ Len(edges) < Len(BuildEdges(params))
    /\ last.op = "tick"
    /\ ticks >= 2

InTick == queue # <<>>

Gravity(n) == V(0, -(params.g * n.mass))

\* C11 - with enable_wind false the wind pass does not run: in a tick the
\* wind system is not scheduled, the rectangle stays where it is, and an
\* accumulator changes only by that substep's gravity or by being zeroed.
C11_WindDisabledSkipped ==
    /\ []((InTick /\ ~params.enable_wind) =>
            /\ \A j \in 1..Len(queue) : queue[j] # "apply_wind"
            /\ WindTrace = <<>>)
    /\ [][~params.enable_wind => wind' = wind]_vars
    /\ [][(InTick /\ ~params.enable_wind) =>
            \A id \in DOMAIN nodes :
                \/ nodes'[id].force = nodes[id].force
                \/ nodes'[id].force = VAdd(nodes[id].force, Gravity(nodes[id]))
                \/ nodes'[id].force = VZero]_vars

C11_Witness ==
    /\ BetweenTicks
    /\ last.op = "tick"
    /\ prior = "wind"
    /\ ~params.enable_wind
    /\ wind # SetupWind(window)
    /\ \E id \in DOMAIN nodes : ~nodes[id].pinned /\ InRect(nodes[id].pos, wind)

WindStep == InTick /\ Head(queue) = "apply_wind"

\* C12 as stated - an advance moves the rectangle by force.x * dt and shifts
\* it back by the width when its leading (right) edge passes the width.
C12_WrapOnLeadingEdge ==
    [][WindStep =>
          LET lead == wind.max.x + wind.force.x * params.dt
          IN  wind'.max.x = IF lead > window.x THEN lead - window.x ELSE lead]_vars

\* C12 amended - an advance moves both x-edges by force.x * dt and shifts
\* both back by the width when the left edge (min.x) has reached the width;
\* the x-extent and the y-bounds never change.
C12_WindAdvance ==
    /\ [][WindStep =>
            LET shift == wind.force.x * params.dt
                wrap  == IF wind.min.x + shift >= window.x THEN window.x ELSE 0
            IN  /\ wind'.min.x = wind.min.x + shift - wrap
                /\ wind'.max.x = wind.max.x + shift - wrap]_vars
    /\ [](/\ wind.max.x - wind.min.x = SetupWind(window).max.x - SetupWind(window).min.x
          /\ wind.min.y = SetupWind(window).min.y
          /\ wind.max.y = SetupWind(window).max.y
          /\ wind.force = SetupWind(window).force)

C12_Witness ==
    /\ ticks = 2
    /\ Len(WindTrace) = 1
    /\ wind = SetupWind(window)

\* the node has no spring
Free(id) == \A i \in 1..Len(edges) : edges[i].a # id /\ edges[i].b # id

\* a node that has been without springs, wind and impulses since it was
\* built at rest, after N = ticks whole ticks
FreeFall(id) ==
    /\ quiet
    /\ BetweenTicks
    /\ ~nodes[id].pinned
    /\ Free(id)
    /\ params.dampen_num = params.dampen_den

\* C13 as stated - after N ticks the node's displacement is the closed-form
\* value (0, -g * (N*dt)^2 / 2).
C13_ClosedForm ==
    \A id \in DOMAIN nodes :
        FreeFall(id) =>
            /\ nodes[id].pos.x = anchor[id].x
            /\ 2 * (nodes[id].pos.y - anchor[id].y) =
                  -(params.g * (ticks * params.dt) * (ticks * params.dt))

\* C13 amended - after N ticks, n = 5N substeps of h = dt/5 each, the
\* displacement is (0, -g * h^2 * n * (n + 1) / 2): the closed-form value
\* plus the term -g * dt^2 * N / 10.
C13_DiscreteFall ==
    \A id \in DOMAIN nodes :
        FreeFall(id) =>
            LET n == 5 * ticks
            IN  /\ nodes[id].pos.x = anchor[id].x
                /\ 2 * 25 * (nodes[id].pos.y - anchor[id].y) =
                      -(params.g * params.dt * params.dt * n * (n + 1))

C13_Witness ==
    /\ ticks = 2
    /\ params.g > 0
    /\ \E id \in DOMAIN nodes : FreeFall(id)

\* two particles, exactly one of them pinned, joined by the single spring,
\* untouched by wind, impulses, reset and the r0 slider since they were built
\* at rest at r0 separation
PinnedPair ==
    /\ quiet
    /\ params.g = 0
    /\ DOMAIN nodes = {1, 2}
    /\ Len(edges) = 1
    /\ {edges[1].a, edges[1].b} = {1, 2}
    /\ nodes[1].pinned # nodes[2].pinned

\* C14 - rest-length equilibrium: the pinned pair with g = 0 keeps its r0
\* separation and both particles stay at their initial positions, in every
\* state of every tick.
C14_RestLengthEquilibrium ==
    PinnedPair =>
        /\ \A id \in DOMAIN nodes :
              /\ nodes[id].pos = anchor[id]
              /\ nodes[id].pos = GridPos(nodes[id].index.x, nodes[id].index.y, params.r0)
        /\ ~VSub(nodes[1].pos, nodes[2].pos).nan
        /\ VLength(VSub(nodes[1].pos, nodes[2].pos)) = params.r0

C14_Witness ==
    /\ PinnedPair
    /\ BetweenTicks
    /\ ticks = 2
    /\ Len(PhysTrace) = 5 * NumSteps

NoForce == \A id \in DOMAIN nodes : nodes[id].force = VZero

\* the stage's last system of the tick just run was the wind system
WindRanLast == trace # <<>> /\ trace[Len(trace)].pass = "wind"

TickEnded == BetweenTicks /\ last.op = "tick"

RelaxStep == InPhysics("relax")

\* C16 - frame of a relaxation pass: it changes nothing but the position of
\* non-pinned nodes that are an endpoint of an existing spring; every node's
\* previous position, force, mass and Pinned component, the position of
\* every pinned node and of every node without a spring, and the springs
\* are left as they were.
C16_RelaxationFrame ==
    [][RelaxStep =>
        /\ edges' = edges
        /\ DOMAIN nodes' = DOMAIN nodes
        /\ \A id \in DOMAIN nodes :
              /\ nodes'[id] = [nodes[id] EXCEPT !.pos = nodes'[id].pos]
              /\ (nodes[id].pinned \/ Free(id)) => nodes'[id].pos = nodes[id].pos]_vars

\* the spring's length differs from the rest length
Strained(e) ==
    LET d == VSub(nodes[e.a].pos, nodes[e.b].pos)
    IN  ~d.nan /\ VLength(d) # params.r0

C16_Witness ==
    /\ RelaxStep
    /\ pc.iter >= 2
    /\ \E id \in DOMAIN nodes : ~nodes[id].pinned /\ Free(id) /\ nodes[id].pos # nodes[id].prev
    /\ \E i \in 1..Len(edges) :
          /\ nodes[edges[i].a].pinned
          /\ ~nodes[edges[i].b].pinned
          /\ Strained(edges[i])
          /\ nodes[edges[i].b].force = VZero

\* what one spring adds to its endpoint b and takes from its endpoint a,
\* given the two endpoint positions it reads, over the substep h = dt / 5
Pull(pa, pb, mass) ==
    LET d   == VSub(pa, pb)
        len == IF d.nan THEN 0 ELSE VLength(d)
        h   == params.dt \div NumSteps
    IN  IF len = 0 THEN NaNVec
        ELSE V(TDiv(d.x * params.k0 * (len - params.r0) * h * h, 2 * len * mass),
               TDiv(d.y * params.k0 * (len - params.r0) * h * h, 2 * len * mass))

\* positions q after spring e has read the positions r
Pulled(q, r, e) ==
    LET to_a == IF nodes[e.a].pinned THEN q[e.a]
                ELSE VSub(q[e.a], Pull(r[e.a], r[e.b], nodes[e.a].mass))
        to_b == IF nodes[e.b].pinned THEN q[e.b]
                ELSE VAdd(q[e.b], Pull(r[e.a], r[e.b], nodes[e.b].mass))
    IN  [q EXCEPT ![e.a] = to_a, ![e.b] = to_b]

StartPos == [id \in DOMAIN nodes |-> nodes[id].pos]

\* positions after the first k springs, each spring reading the positions
\* left by the springs before it
RECURSIVE Sequential(_)
Sequential(k) ==
    IF k = 0 THEN StartPos
    ELSE LET q == Sequential(k - 1) IN Pulled(q, q, edges[k])

\* positions after the first k springs, each spring reading the positions
\* at the start of the pass
RECURSIVE Snapshot(_)
Snapshot(k) ==
    IF k = 0 THEN StartPos
    ELSE Pulled(Snapshot(k - 1), StartPos, edges[k])

\* C17 - relaxation is sequential: a pass leaves every node where the
\* springs put it when each spring, in order, reads the positions already
\* corrected by the springs before it (and by the earlier passes), which
\* is not where reading the positions at the start of the pass would put it
\* whenever the two differ.
C17_SequentialRelaxation ==
    [][RelaxStep =>
        [id \in DOMAIN nodes |-> nodes'[id].pos] = Sequential(Len(edges))]_vars

C17_Witness ==
    /\ RelaxStep
    /\ \A id \in DOMAIN nodes : ~nodes[id].pos.nan
    /\ \E i, j \in 1..Len(edges) :
          /\ i < j
          /\ {edges[i].a, edges[i].b} \cap {edges[j].a, edges[j].b} # {}
          /\ \E id \in {edges[j].a, edges[j].b} :
                /\ ~Sequential(Len(edges))[id].nan
                /\ Sequential(Len(edges))[id] # Snapshot(Len(edges))[id]

\* the tick just ended is the first tick after a reset, with nothing between
\* the reset and the tick
TickAfterReset == TickEnded /\ prior = "reset"

\* C18 - reset leaves the lattice at rest: after a reset followed at once by
\* a tick with g = 0 and wind disabled, every node is at its reset position
\* with position = previous position.
C18_ResetLeavesRest ==
    (TickAfterReset /\ params.g = 0 /\ ~params.enable_wind) =>
        \A id \in DOMAIN nodes :
            /\ nodes[id].pos = anchor[id]
            /\ nodes[id].prev = nodes[id].pos

====
